---- MODULE Spec2Model ----
(***************************************************************************)
(* Model of the polling / detection / notification core of the             *)
(* Sportstiming ticket checker (ticket_checker.py):                        *)
(*   check_individual_ticket   - per-entity fetch with retry strategies    *)
(*   check_ticket_range        - scan with immediate forced alerts         *)
(*   send_notifications        - gate and channel fan-out                  *)
(*   run_single_check / run_continuous_monitoring - the tick loop          *)
(* Spec      is continuous monitoring, one step per HTTP attempt and one   *)
(*           step per phase of the tick.                                   *)
(* SpecFetch is one call of check_individual_ticket with the complete      *)
(*           trace of responses and waits.                                 *)
(***************************************************************************)
EXTENDS Integers, Sequences, FiniteSets, TLC

\* ------------------------------------------------------------------ bounds
\* number of ticks of the monitoring loop that are explored
MaxTicks == 3
\* number of leading entities of a scan whose responses are unconstrained;
\* entities after them answer "not available" on their first attempt
MaxHot == 2
\* number of Telegram recipients a configuration lists at most
MaxChats == 2
\* length of the longest text given to escape_markdown
MaxLen == 3

\* ------------------------------------------------------- program constants
\* --interval default
check_interval == 120
\* default ticket range
DefaultStart == 54310
DefaultEnd == 54360
\* minimum page text length of a valid ticket page
MinPageLen == 2000

None == "None"
NoResult == [status |-> None, available_tickets |-> <<>>, checked_count |-> 0]

AVAILABLE == "TICKETS_AVAILABLE"
NO_TICKETS == "NO_TICKETS"
ERROR == "ERROR"

\* Python truthiness of a tuple / list / None (None is modelled as <<>>)
Truthy(x) == x /= <<>>

\* the end of the range is left out: list(range(start_id, end_id))
RangeList_Exclusive(start_id, end_id) == [i \in 1..(end_id - start_id) |-> start_id + i - 1]

\* list(range(start_id, end_id + 1))
RangeList(start_id, end_id) == [i \in 1..(end_id - start_id + 1) |-> start_id + i - 1]

\* ------------------------------------------------- check_individual_ticket
\* strategies: delay slept before each attempt, and the request timeout
\* linear back-off of 10 s times the attempt number
StrategyDelay_Linear == <<0, 10, 20>>

StrategyDelay == <<0, 2, 5>>
StrategyTimeout == <<10, 15, 20>>
NumStrategies == Len(StrategyDelay)

\* what one HTTP attempt can produce
Responses == {"200", "403", "404", "429", "500", "timeout", "connerr", "exception"}

\* what the classifier looks at in a fetched ticket page
Pages == [sold : BOOLEAN, expired : BOOLEAN, len : {MinPageLen - 1, MinPageLen},
          buy : BOOLEAN, price : BOOLEAN]

\* the page of a response that carries no page
NoPage == [sold |-> FALSE, expired |-> FALSE, len |-> 0, buy |-> FALSE, price |-> FALSE]

\* a page without buy label and price is not reported as available
ClassifyTicketPage_RequireSignal(page) ==
    IF page.sold THEN [status |-> NO_TICKETS, message |-> "sold_or_reserved"]
    ELSE IF page.expired THEN [status |-> NO_TICKETS, message |-> "expired_or_cancelled"]
    ELSE IF page.len < MinPageLen THEN [status |-> NO_TICKETS, message |-> "page_too_short"]
    ELSE IF page.buy \/ page.price THEN [status |-> AVAILABLE, message |-> "available"]
    ELSE [status |-> NO_TICKETS, message |-> "may_be_available"]

\* a buy label or price makes a short page available
ClassifyTicketPage_SignalBeforeLength(page) ==
    IF page.sold THEN [status |-> NO_TICKETS, message |-> "sold_or_reserved"]
    ELSE IF page.expired THEN [status |-> NO_TICKETS, message |-> "expired_or_cancelled"]
    ELSE IF page.buy \/ page.price THEN [status |-> AVAILABLE, message |-> "available"]
    ELSE IF page.len < MinPageLen THEN [status |-> NO_TICKETS, message |-> "page_too_short"]
    ELSE [status |-> AVAILABLE, message |-> "may_be_available"]

\* classification of a successfully fetched ticket page
ClassifyTicketPage(page) ==
    IF page.sold THEN [status |-> NO_TICKETS, message |-> "sold_or_reserved"]
    ELSE IF page.expired THEN [status |-> NO_TICKETS, message |-> "expired_or_cancelled"]
    ELSE IF page.len < MinPageLen THEN [status |-> NO_TICKETS, message |-> "page_too_short"]
    ELSE IF page.buy \/ page.price THEN [status |-> AVAILABLE, message |-> "available"]
    ELSE [status |-> AVAILABLE, message |-> "may_be_available"]

Retry == [ret |-> FALSE, status |-> None, message |-> None]
Return(status, message) == [ret |-> TRUE, status |-> status, message |-> message]

\* a 404 is handled like a 403: next strategy, "not available" at the end
HandleResponse_Retry404(resp, page, attempt) ==
    IF resp \in {"403", "404"}
    THEN IF attempt < NumStrategies THEN Retry ELSE Return(NO_TICKETS, "forbidden")
    ELSE IF resp = "200" THEN LET c == ClassifyTicketPage(page) IN Return(c.status, c.message)
    ELSE IF resp = "exception" THEN Return(ERROR, "unexpected")
    ELSE IF attempt < NumStrategies THEN Retry ELSE Return(ERROR, "failed")

\* a 403 ends the fetch at once
HandleResponse_No403Retry(resp, page, attempt) ==
    IF resp = "403" THEN Return(NO_TICKETS, "forbidden")
    ELSE IF resp = "404" THEN Return(NO_TICKETS, "not_found")
    ELSE IF resp = "200" THEN LET c == ClassifyTicketPage(page) IN Return(c.status, c.message)
    ELSE IF resp = "exception" THEN Return(ERROR, "unexpected")
    ELSE IF attempt < NumStrategies THEN Retry ELSE Return(ERROR, "failed")

\* a failed request is not retried
HandleResponse_NoErrorRetry(resp, page, attempt) ==
    IF resp = "403"
    THEN IF attempt < NumStrategies THEN Retry ELSE Return(NO_TICKETS, "forbidden")
    ELSE IF resp = "404" THEN Return(NO_TICKETS, "not_found")
    ELSE IF resp = "200" THEN LET c == ClassifyTicketPage(page) IN Return(c.status, c.message)
    ELSE IF resp = "exception" THEN Return(ERROR, "unexpected")
    ELSE IF resp = "timeout" THEN Return(ERROR, "timeout")
    ELSE Return(ERROR, "failed")

\* a 403 always continues, also on the last strategy
HandleResponse_403AlwaysContinue(resp, page, attempt) ==
    IF resp = "403" THEN Retry
    ELSE IF resp = "404" THEN Return(NO_TICKETS, "not_found")
    ELSE IF resp = "200" THEN LET c == ClassifyTicketPage(page) IN Return(c.status, c.message)
    ELSE IF resp = "exception" THEN Return(ERROR, "unexpected")
    ELSE IF attempt < NumStrategies THEN Retry ELSE Return(ERROR, "failed")

\* a 403 on the last strategy is reported as an error
HandleResponse_403ErrorAtEnd(resp, page, attempt) ==
    IF resp = "403"
    THEN IF attempt < NumStrategies THEN Retry ELSE Return(ERROR, "failed")
    ELSE IF resp = "404" THEN Return(NO_TICKETS, "not_found")
    ELSE IF resp = "200" THEN LET c == ClassifyTicketPage(page) IN Return(c.status, c.message)
    ELSE IF resp = "exception" THEN Return(ERROR, "unexpected")
    ELSE IF attempt < NumStrategies THEN Retry ELSE Return(ERROR, "failed")

\* body of one iteration of the strategy loop, after the request returned
\* resp: either a continue (Retry) or the returned record
HandleResponse(resp, page, attempt) ==
    IF resp = "403"
    THEN IF attempt < NumStrategies THEN Retry ELSE Return(NO_TICKETS, "forbidden")
    ELSE IF resp = "404" THEN Return(NO_TICKETS, "not_found")
    ELSE IF resp = "200" THEN LET c == ClassifyTicketPage(page) IN Return(c.status, c.message)
    ELSE IF resp = "timeout"
    THEN IF attempt < NumStrategies THEN Retry ELSE Return(ERROR, "timeout")
    ELSE IF resp \in {"429", "500", "connerr"}
    THEN IF attempt < NumStrategies THEN Retry ELSE Return(ERROR, "failed")
    ELSE Return(ERROR, "unexpected")

\* ------------------------------------------------------ send_notifications
Channels == {"email", "sms", "telegram", "pushover"}

\* fields of each notification payload the program builds
PayloadFields(kind) ==
    CASE kind = "immediate" -> {"timestamp", "status", "message", "available_tickets",
                                "checked_count", "range", "url"}
      [] kind = "summary"   -> {"timestamp", "status", "message", "available_tickets",
                                "checked_count", "range"}
      [] OTHER              -> {"timestamp", "status", "message", "ticket_count", "url"}

\* fields each channel formatter subscripts (a missing one raises KeyError,
\* caught inside the channel before anything is sent)
RequiredFields(channel) ==
    CASE channel = "email"    -> {"status", "message", "ticket_count", "timestamp", "url"}
      [] channel = "sms"      -> {"status", "message", "url", "timestamp"}
      [] channel = "telegram" -> {"status", "message", "timestamp"}
      [] OTHER                -> {"message", "ticket_count", "timestamp", "url", "status"}

\* only the policy flag is consulted
ShouldSend_PolicyOnly(force, status, nas) == nas

\* the force argument is ignored
ShouldSend_NoForce(force, status, nas) == status = AVAILABLE \/ nas

\* should_send
ShouldSend(force, status, nas) == force \/ status = AVAILABLE \/ nas

\* channels whose formatter gets as far as its network send
Reaching(cfg, kind) == {c \in cfg : RequiredFields(c) \subseteq PayloadFields(kind)}

\* order in which send_notifications calls the channels
ChannelOrder == <<"email", "sms", "telegram", "pushover">>

\* what a configured channel does with a payload: KeyError in its formatter,
\* a failed send, or a successful send (ok is the set of channels whose
\* network send succeeds)
ChannelOutcome(c, kind, ok) ==
    IF ~(RequiredFields(c) \subseteq PayloadFields(kind)) THEN "keyerror"
    ELSE IF c \in ok THEN "ok" ELSE "failed"

\* the channels have no try/except: the first failure ends the fan-out
RECURSIVE Fanout_Propagate(_, _, _, _)
Fanout_Propagate(i, cfg, kind, ok) ==
    IF i > Len(ChannelOrder) THEN <<>>
    ELSE LET c == ChannelOrder[i] IN
         IF c \notin cfg THEN Fanout_Propagate(i + 1, cfg, kind, ok)
         ELSE IF ChannelOutcome(c, kind, ok) /= "ok"
         THEN <<[channel |-> c, outcome |-> ChannelOutcome(c, kind, ok)]>>
         ELSE <<[channel |-> c, outcome |-> "ok"]>> \o Fanout_Propagate(i + 1, cfg, kind, ok)

\* the four channel calls of send_notifications from channel i on: a channel
\* without configuration returns at once, a configured one catches its own
\* failure
RECURSIVE Fanout(_, _, _, _)
Fanout(i, cfg, kind, ok) ==
    IF i > Len(ChannelOrder) THEN <<>>
    ELSE LET c == ChannelOrder[i] IN
         IF c \notin cfg THEN Fanout(i + 1, cfg, kind, ok)
         ELSE <<[channel |-> c, outcome |-> ChannelOutcome(c, kind, ok)]>>
              \o Fanout(i + 1, cfg, kind, ok)

\* the record of one call of send_notifications: the configured channels are
\* attempted when the gate passes; delivered are those whose send succeeded
Notification(kind, status, ticket_id, force, nas, cfg, delivered) ==
    LET gate == ShouldSend(force, status, nas)
        attempts == IF gate THEN Fanout(1, cfg, kind, delivered) ELSE <<>>
    IN
    [kind |-> kind, status |-> status, ticket_id |-> ticket_id, force |-> force,
     should_send |-> gate,
     attempts |-> attempts,
     attempted |-> {attempts[i].channel : i \in 1..Len(attempts)},
     delivered |-> {attempts[i].channel : i \in {j \in 1..Len(attempts) :
                                                   attempts[j].outcome = "ok"}}]

\* -------------------------------------------------------- check_ticket_range
\* an error result also raises the immediate alert
AlertDue_NotUnavailable(status) == status /= NO_TICKETS

\* condition of the immediate alert in the scan loop
AlertDue(status) == status = AVAILABLE

\* the newest ticket is put in front: available_tickets.insert(0, result)
AddAvailable_InFront(avail, ticket_id) == <<ticket_id>> \o avail

\* available_tickets.append(result)
AddAvailable(avail, ticket_id) == Append(avail, ticket_id)

\* random.uniform(2.0, 5.0)
InterDelays == {2, 5}

\* the delay is skipped after an error result
DelayAfter_SkipOnError(status) == IF status = ERROR THEN {0} ELSE InterDelays

\* the delay slept at the end of the scan loop body
DelayAfter(status) == InterDelays

\* an error result breaks out of the scan loop
ScanDone_AbortOnError(done, n, status) == done = n \/ status = ERROR

\* the for loop over tickets_to_check is exhausted
ScanDone(done, n, status) == done = n

\* the summary never reports availability
SummaryStatus_AlwaysNone(avail) == NO_TICKETS

\* status of the scan summary
SummaryStatus(avail) == IF avail /= <<>> THEN AVAILABLE ELSE NO_TICKETS

\* ------------------------------------------------- run_continuous_monitoring
\* the policy flag is forgotten
SummaryDue_AnyChange(nas, last, status) == last /= status

\* the previous status is not compared
SummaryDue_PolicyOnly(nas, last, status) == nas

\* condition of the summary notification
SummaryDue(nas, last, status) == nas /\ last /= status

\* the status is remembered only when something was delivered
CommittedStatus_IfDelivered(last, status, ns) ==
    IF \E i \in 1..Len(ns) : ns[i].delivered /= {} THEN status ELSE last

\* last_status = result["status"]
CommittedStatus(last, status, ns) == status

\* rate-limited ticks back off
TickSleep_Backoff(rate_limited) == IF rate_limited THEN 2 * check_interval ELSE check_interval

\* time.sleep(self.check_interval)
TickSleep(rate_limited) == check_interval

\* ------------------------------------------------------------------- state
VARIABLES
    notify_all_statuses,   \* self.notify_all_statuses
    ticket_id_range,       \* self.ticket_id_range, <<>> for None
    specific_ticket_ids,   \* self.specific_ticket_ids, <<>> for None
    config,                \* the channels that have a section in self.config
    pc,                    \* position of the program
    tick,                  \* number of the current iteration of the while loop
    last_status,           \* local last_status of run_continuous_monitoring
    result,                \* result of run_single_check in this iteration
    tickets_to_check,      \* local of check_ticket_range
    idx,                   \* entities of tickets_to_check already finished
    attempt,               \* attempt number of the running fetch
    available_tickets,     \* local of check_ticket_range (ticket ids)
    total_checked,         \* local of check_ticket_range
    last_result,           \* record last returned by check_individual_ticket
    slept,                 \* duration of the most recent time.sleep
    notifs,                \* calls of send_notifications in this iteration
    check_log,             \* (ticket id, status) of the checks of this iteration
    prev_available,        \* ticket ids found available in the previous iteration
    scan_status_prev,      \* status returned by the previous iteration's scan
    commits,               \* assignments to last_status in this iteration
    decided,               \* the summary condition was evaluated in this iteration
    tick_429,              \* every request of this iteration was answered 429
    resp_log,              \* responses received by the traced fetch
    waits,                 \* delays slept before the attempts of the traced fetch
    page_text,             \* page parsed by the last successful request of the traced call
    call,                  \* the notification entry point under way and its arguments
    chat_ids,              \* config["telegram"]["chat_id"] as a list
    chan,                  \* position in ChannelOrder of the channel function under way
    chat_i,                \* recipients the Telegram loop has finished
    success_count,         \* local of send_telegram_notification
    failed_chats,          \* local of send_telegram_notification
    events,                \* logger records of level warning or error, in order
    attempted,             \* channel functions that got past their configuration test
    sends,                 \* network sends started, with their outcome
    returned,              \* value returned by the entry point
    field,                 \* argument of escape_markdown, a sequence of characters
    text,                  \* local text of escape_markdown
    char_i,                \* entries of special_chars the loop has finished
    classified             \* results of the classifications of page_text so far

vars == <<notify_all_statuses, ticket_id_range, specific_ticket_ids, config, pc, tick,
          last_status, result, tickets_to_check, idx, attempt, available_tickets,
          total_checked, last_result, slept, notifs, check_log, prev_available,
          scan_status_prev, commits, decided, tick_429, resp_log, waits, page_text,
          call, chat_ids, chan, chat_i, success_count, failed_chats, events,
          attempted, sends, returned, field, text, char_i, classified>>

cfg_vars == <<notify_all_statuses, ticket_id_range, specific_ticket_ids, config>>
trace_vars == <<resp_log, waits, page_text>>
send_vars == <<call, chat_ids, chan, chat_i, success_count, failed_chats, events,
               attempted, sends, returned>>
pure_vars == <<field, text, char_i, classified>>

NoTicketResult == [status |-> None, message |-> None, ticket_id |-> 0]
NoCall == [entry |-> None, kind |-> None, status |-> None, force |-> FALSE]

\* a logger record: level, the function that logged it, the chats it lists
Event(level, source, chats) == [level |-> level, source |-> source, chats |-> chats]

\* configurations the constructor is given
RangeChoices == {<<>>, <<1, 2>>}
IdListChoices == {<<>>, <<2, 1>>}
ConfigChoices == {{}, {"telegram"}, Channels}

\* state when run_continuous_monitoring enters its loop
Init ==
    /\ notify_all_statuses \in BOOLEAN
    /\ ticket_id_range \in RangeChoices
    /\ specific_ticket_ids \in IdListChoices
    /\ config \in ConfigChoices
    /\ pc = "tick_start"
    /\ tick = 0
    /\ last_status = None
    /\ result = NoResult
    /\ tickets_to_check = <<>>
    /\ idx = 0
    /\ attempt = 1
    /\ available_tickets = <<>>
    /\ total_checked = 0
    /\ last_result = NoTicketResult
    /\ slept = 0
    /\ notifs = <<>>
    /\ check_log = <<>>
    /\ prev_available = {}
    /\ scan_status_prev = None
    /\ commits = 0
    /\ decided = FALSE
    /\ tick_429 = FALSE
    /\ resp_log = <<>>
    /\ waits = <<>>
    /\ page_text = NoPage
    /\ call = NoCall
    /\ chat_ids = IF "telegram" \in config THEN <<1>> ELSE <<>>
    /\ chan = 0
    /\ chat_i = 0
    /\ success_count = 0
    /\ failed_chats = <<>>
    /\ events = <<>>
    /\ attempted = <<>>
    /\ sends = <<>>
    /\ returned = None
    /\ field = <<>>
    /\ text = <<>>
    /\ char_i = 0
    /\ classified = <<>>

\* the default range stops one ticket early
DefaultedRange_OffByOne(range, ids) ==
    IF ~Truthy(range) /\ ~Truthy(ids) THEN <<DefaultStart, DefaultEnd - 1>> ELSE range

\* run_single_check has no defaulting step
DefaultedRange_NoDefault(range, ids) == range

\* the ticket range after the defaulting step of run_single_check
DefaultedRange(range, ids) ==
    IF ~Truthy(range) /\ ~Truthy(ids) THEN <<DefaultStart, DefaultEnd>> ELSE range

\* the entities check_ticket_range iterates
TicketsToCheck(range, ids) ==
    IF Truthy(ids) THEN ids
    ELSE IF Truthy(range) THEN RangeList(range[1], range[2])
    ELSE RangeList(DefaultStart, DefaultEnd)

SeqToSet(s) == {s[i] : i \in 1..Len(s)}

\* run_single_check takes the scan branch (and not the aggregate page check)
UsesScan(range, ids) == Truthy(range) \/ Truthy(ids)

\* start of an iteration: run_single_check up to the scan loop
StartTick ==
    /\ pc = "tick_start"
    /\ tick < MaxTicks
    /\ tick' = tick + 1
    /\ ticket_id_range' = DefaultedRange(ticket_id_range, specific_ticket_ids)
    /\ tickets_to_check' = TicketsToCheck(ticket_id_range', specific_ticket_ids)
    /\ available_tickets' = <<>>
    /\ total_checked' = 0
    /\ idx' = 0
    /\ attempt' = 1
    /\ notifs' = <<>>
    /\ check_log' = <<>>
    /\ prev_available' = SeqToSet(available_tickets)
    /\ scan_status_prev' = result.status
    /\ commits' = 0
    /\ decided' = FALSE
    /\ tick_429' = TRUE
    /\ pc' = IF ~UsesScan(ticket_id_range', specific_ticket_ids) THEN "aggregate"
             ELSE IF tickets_to_check' = <<>> THEN "summary" ELSE "fetch"
    /\ UNCHANGED <<notify_all_statuses, specific_ticket_ids, config, last_status, result,
                   last_result, slept, trace_vars, send_vars, pure_vars>>

\* responses the entity at position i of the scan can give
ResponsesAt(i) == IF i <= MaxHot THEN Responses ELSE {"404"}
PagesFor(resp) == IF resp = "200" THEN Pages ELSE {NoPage}

\* one attempt of check_individual_ticket that ends in continue; when no
\* strategy is left the loop ends, the function returns None and the scan
\* raises TypeError on result["status"], which ends the monitoring loop
AttemptRetry ==
    /\ pc = "fetch"
    /\ \E resp \in ResponsesAt(idx + 1) : \E page \in PagesFor(resp) :
         LET h == HandleResponse(resp, page, attempt) IN
         /\ ~h.ret
         /\ attempt' = attempt + 1
         /\ slept' = StrategyDelay[attempt]
         /\ tick_429' = (tick_429 /\ resp = "429")
    /\ pc' = IF attempt + 1 > NumStrategies THEN "crashed" ELSE pc
    /\ last_result' = IF attempt + 1 > NumStrategies THEN NoTicketResult ELSE last_result
    /\ total_checked' = IF attempt = 1 THEN total_checked + 1 ELSE total_checked
    /\ UNCHANGED <<cfg_vars, tick, last_status, result, tickets_to_check, idx,
                   available_tickets, notifs, check_log, prev_available,
                   scan_status_prev, commits, decided, trace_vars, send_vars, pure_vars>>

\* one attempt of check_individual_ticket that returns, and the rest of the
\* scan loop body for that entity: immediate alert, delay, next entity
AttemptReturn ==
    /\ pc = "fetch"
    /\ \E resp \in ResponsesAt(idx + 1) : \E page \in PagesFor(resp) :
         LET h == HandleResponse(resp, page, attempt)
             ticket_id == tickets_to_check[idx + 1]
         IN
         /\ h.ret
         /\ last_result' = [status |-> h.status, message |-> h.message,
                            ticket_id |-> ticket_id]
         /\ tick_429' = (tick_429 /\ resp = "429")
         /\ check_log' = Append(check_log, [ticket_id |-> ticket_id, status |-> h.status])
         /\ \E d \in DelayAfter(h.status) : slept' = d
         /\ pc' = IF ScanDone(idx + 1, Len(tickets_to_check), h.status)
                  THEN "summary" ELSE "fetch"
         /\ IF AlertDue(h.status)
            THEN /\ available_tickets' = AddAvailable(available_tickets, ticket_id)
                 /\ \E delivered \in SUBSET Reaching(config, "immediate") :
                      notifs' = Append(notifs,
                          Notification("immediate", AVAILABLE, ticket_id, TRUE,
                                       notify_all_statuses, config, delivered))
            ELSE UNCHANGED <<available_tickets, notifs>>
    /\ total_checked' = IF attempt = 1 THEN total_checked + 1 ELSE total_checked
    /\ idx' = idx + 1
    /\ attempt' = 1
    /\ UNCHANGED <<cfg_vars, tick, last_status, result, tickets_to_check,
                   prev_available, scan_status_prev, commits, decided, trace_vars, send_vars, pure_vars>>

\* end of check_ticket_range and return of run_single_check
Summarize ==
    /\ pc = "summary"
    /\ result' = [status |-> SummaryStatus(available_tickets),
                  available_tickets |-> available_tickets,
                  checked_count |-> total_checked]
    /\ pc' = "log"
    /\ UNCHANGED <<cfg_vars, tick, last_status, tickets_to_check, idx, attempt,
                   available_tickets, total_checked, last_result, slept, notifs,
                   check_log, prev_available, scan_status_prev, commits, decided,
                   tick_429, trace_vars, send_vars, pure_vars>>

\* the summary log lines; the "no tickets" line subscripts self.ticket_id_range
\* and raises TypeError when it is None, which ends the monitoring loop
LogSummary ==
    /\ pc = "log"
    /\ pc' = IF Len(result.available_tickets) = 0 /\ ~Truthy(ticket_id_range)
             THEN "crashed" ELSE "decide"
    /\ UNCHANGED <<cfg_vars, tick, last_status, result, tickets_to_check, idx, attempt,
                   available_tickets, total_checked, last_result, slept, notifs,
                   check_log, prev_available, scan_status_prev, commits, decided,
                   tick_429, trace_vars, send_vars, pure_vars>>

\* the summary notification on a status change
Decide ==
    /\ pc = "decide"
    /\ IF SummaryDue(notify_all_statuses, last_status, result.status)
       THEN \E delivered \in SUBSET Reaching(config, "summary") :
              notifs' = Append(notifs,
                  Notification("summary", result.status, 0, FALSE,
                               notify_all_statuses, config, delivered))
       ELSE UNCHANGED notifs
    /\ decided' = TRUE
    /\ pc' = "commit"
    /\ UNCHANGED <<cfg_vars, tick, last_status, result, tickets_to_check, idx, attempt,
                   available_tickets, total_checked, last_result, slept, check_log,
                   prev_available, scan_status_prev, commits, tick_429, trace_vars, send_vars, pure_vars>>

\* last_status = result["status"]
Commit ==
    /\ pc = "commit"
    /\ last_status' = CommittedStatus(last_status, result.status, notifs)
    /\ commits' = commits + 1
    /\ pc' = "sleep"
    /\ UNCHANGED <<cfg_vars, tick, result, tickets_to_check, idx, attempt,
                   available_tickets, total_checked, last_result, slept, notifs,
                   check_log, prev_available, scan_status_prev, decided, tick_429,
                   trace_vars, send_vars, pure_vars>>

\* time.sleep(self.check_interval), then the next iteration
Sleep ==
    /\ pc = "sleep"
    /\ slept' = TickSleep(tick_429 /\ total_checked > 0)
    /\ pc' = "tick_start"
    /\ UNCHANGED <<cfg_vars, tick, last_status, result, tickets_to_check, idx, attempt,
                   available_tickets, total_checked, last_result, notifs, check_log,
                   prev_available, scan_status_prev, commits, decided, tick_429,
                   trace_vars, send_vars, pure_vars>>

\* except Exception of run_continuous_monitoring: the try statement encloses
\* the while loop, so the handler logs the error and the function returns
MonitoringError ==
    /\ pc = "crashed"
    /\ events' = Append(events, Event("error", "run_continuous_monitoring", <<>>))
    /\ pc' = "stopped"
    /\ UNCHANGED <<cfg_vars, tick, last_status, result, tickets_to_check, idx, attempt,
                   available_tickets, total_checked, last_result, slept, notifs, check_log,
                   prev_available, scan_status_prev, commits, decided, tick_429,
                   trace_vars, call, chat_ids, chan, chat_i, success_count, failed_chats,
                   attempted, sends, returned, pure_vars>>

Next ==
    \/ StartTick
    \/ AttemptRetry
    \/ AttemptReturn
    \/ Summarize
    \/ LogSummary
    \/ Decide
    \/ Commit
    \/ Sleep
    \/ MonitoringError

Spec == Init /\ [][Next]_vars

\* ------------------------------------------- one call of run_single_check
\* one-shot mode: run_single_check on the constructed checker; at "log" the
\* call has returned its summary
NextSingle ==
    \/ StartTick
    \/ AttemptRetry
    \/ AttemptReturn
    \/ Summarize

\* every request returns or times out, so the step under way is taken
SpecSingle == Init /\ [][NextSingle]_vars /\ WF_vars(NextSingle)

\* ---------------------------------------- one call of check_individual_ticket
TracedTickets == 1..2

InitFetch ==
    /\ notify_all_statuses = FALSE
    /\ ticket_id_range = <<>>
    /\ config = {}
    /\ \E t \in TracedTickets : specific_ticket_ids = <<t>>
    /\ tickets_to_check = specific_ticket_ids
    /\ pc = "f_call"
    /\ tick = 0
    /\ last_status = None
    /\ result = NoResult
    /\ idx = 0
    /\ attempt = 1
    /\ available_tickets = <<>>
    /\ total_checked = 0
    /\ last_result = NoTicketResult
    /\ slept = 0
    /\ notifs = <<>>
    /\ check_log = <<>>
    /\ prev_available = {}
    /\ scan_status_prev = None
    /\ commits = 0
    /\ decided = FALSE
    /\ tick_429 = FALSE
    /\ resp_log = <<>>
    /\ waits = <<>>
    /\ page_text = NoPage
    /\ call = NoCall
    /\ chat_ids = <<>>
    /\ chan = 0
    /\ chat_i = 0
    /\ success_count = 0
    /\ failed_chats = <<>>
    /\ events = <<>>
    /\ attempted = <<>>
    /\ sends = <<>>
    /\ returned = None
    /\ field = <<>>
    /\ text = <<>>
    /\ char_i = 0
    /\ classified = <<>>

fetch_frame == <<cfg_vars, tick, last_status, result, tickets_to_check, idx,
                 available_tickets, total_checked, notifs, check_log, prev_available,
                 scan_status_prev, commits, decided, tick_429, send_vars, pure_vars>>

\* an attempt that ends in continue; when no strategy is left the loop ends
\* and the function returns None
FetchRetry ==
    /\ pc = "f_call"
    /\ \E resp \in Responses : \E page \in PagesFor(resp) :
         /\ ~HandleResponse(resp, page, attempt).ret
         /\ resp_log' = Append(resp_log, resp)
         /\ page_text' = page
    /\ waits' = Append(waits, StrategyDelay[attempt])
    /\ slept' = StrategyDelay[attempt]
    /\ attempt' = attempt + 1
    /\ pc' = IF attempt + 1 > NumStrategies THEN "f_returned" ELSE pc
    /\ last_result' = IF attempt + 1 > NumStrategies THEN NoTicketResult ELSE last_result
    /\ UNCHANGED fetch_frame

\* an attempt that returns the result record
FetchReturn ==
    /\ pc = "f_call"
    /\ \E resp \in Responses : \E page \in PagesFor(resp) :
         LET h == HandleResponse(resp, page, attempt) IN
         /\ h.ret
         /\ resp_log' = Append(resp_log, resp)
         /\ page_text' = page
         /\ last_result' = [status |-> h.status, message |-> h.message,
                            ticket_id |-> tickets_to_check[1]]
    /\ waits' = Append(waits, StrategyDelay[attempt])
    /\ slept' = StrategyDelay[attempt]
    /\ pc' = "f_returned"
    /\ UNCHANGED <<fetch_frame, attempt>>

NextFetch == FetchRetry \/ FetchReturn

SpecFetch == InitFetch /\ [][NextFetch]_vars

\* ---------------------------------------- one call of check_tickets_available
\* what the classifier looks at in the fetched event page
EventPages == [sold_out : BOOLEAN, no_tickets : BOOLEAN, no_tickets_en : BOOLEAN,
               sections : BOOLEAN, price : BOOLEAN, listings : 0..2]

no_tickets_text == "Der findes ingen billetter til salg"

\* Python truthiness of a string
StrTruthy(str) == str /= ""

\* classification of the fetched event page; the second condition is
\* no_tickets_text or (no_tickets_text_en in page_text)
ClassifyEventPage(p) ==
    IF p.sold_out THEN [status |-> NO_TICKETS, message |-> "all_sold_or_reserved"]
    ELSE IF StrTruthy(no_tickets_text) \/ p.no_tickets_en
    THEN [status |-> NO_TICKETS, message |-> "no_tickets_for_sale"]
    ELSE IF p.sections \/ p.price THEN [status |-> AVAILABLE, message |-> "available"]
    ELSE [status |-> AVAILABLE, message |-> "may_be_available"]

InitAggregate ==
    /\ notify_all_statuses = FALSE
    /\ ticket_id_range = <<>>
    /\ specific_ticket_ids = <<>>
    /\ config = {}
    /\ tickets_to_check = <<>>
    /\ pc = "a_call"
    /\ tick = 0
    /\ last_status = None
    /\ result = NoResult
    /\ idx = 0
    /\ attempt = 1
    /\ available_tickets = <<>>
    /\ total_checked = 0
    /\ last_result = NoTicketResult
    /\ slept = 0
    /\ notifs = <<>>
    /\ check_log = <<>>
    /\ prev_available = {}
    /\ scan_status_prev = None
    /\ commits = 0
    /\ decided = FALSE
    /\ tick_429 = FALSE
    /\ resp_log = <<>>
    /\ waits = <<>>
    /\ page_text = NoPage
    /\ call = NoCall
    /\ chat_ids = <<>>
    /\ chan = 0
    /\ chat_i = 0
    /\ success_count = 0
    /\ failed_chats = <<>>
    /\ events = <<>>
    /\ attempted = <<>>
    /\ sends = <<>>
    /\ returned = None
    /\ field = <<>>
    /\ text = <<>>
    /\ char_i = 0
    /\ classified = <<>>

\* the single request of check_tickets_available and its result record: a
\* status other than 200 raises in raise_for_status, and every exception
\* returns an ERROR record
CheckTicketsAvailable ==
    /\ pc = "a_call"
    /\ \E resp \in Responses :
         \E p \in (IF resp = "200" THEN EventPages ELSE {NoPage}) :
           /\ resp_log' = <<resp>>
           /\ page_text' = p
           /\ last_result' =
                 IF resp = "200"
                 THEN LET c == ClassifyEventPage(p) IN
                      [status |-> c.status, message |-> c.message,
                       ticket_count |-> p.listings]
                 ELSE [status |-> ERROR,
                       message |-> IF resp = "exception" THEN "unexpected" ELSE "failed",
                       ticket_count |-> 0]
    /\ pc' = "a_returned"
    /\ UNCHANGED <<fetch_frame, attempt, slept, waits>>

NextAggregate == CheckTicketsAvailable

SpecAggregate == InitAggregate /\ [][NextAggregate]_vars

\* ------------------------------- one call of a notification entry point
\* chat_id lists of the Telegram section (empty: no chat_id in the section)
ChatIdChoices == {[i \in 1..n |-> i] : n \in 0..MaxChats}

\* default of the force parameter of test_all_notifications, which main uses
TestForceDefault == FALSE

\* the calls: send_notifications as the monitoring loop calls it (immediate
\* alert and summary), send_notifications with any arguments, and the two
\* test entry points
Calls ==
    {[entry |-> "monitoring", kind |-> "immediate", status |-> AVAILABLE, force |-> TRUE]}
    \cup {[entry |-> "monitoring", kind |-> "summary", status |-> st, force |-> FALSE] :
             st \in {AVAILABLE, NO_TICKETS}}
    \cup {[entry |-> "send_notifications", kind |-> k, status |-> st, force |-> f] :
             k \in {"immediate", "summary"}, st \in {AVAILABLE, NO_TICKETS, ERROR},
             f \in BOOLEAN}
    \cup {[entry |-> "test_all_notifications", kind |-> "test", status |-> "TEST",
           force |-> TestForceDefault]}
    \cup {[entry |-> "test_telegram_notification", kind |-> "test", status |-> "TEST",
           force |-> FALSE]}

InitSend ==
    /\ notify_all_statuses \in BOOLEAN
    /\ config \in SUBSET Channels
    /\ chat_ids \in (IF "telegram" \in config THEN ChatIdChoices ELSE {<<>>})
    /\ call \in Calls
    /\ (call.entry = "monitoring" /\ call.kind = "summary") => notify_all_statuses
    /\ pc = "s_entry"
    /\ ticket_id_range = <<>>
    /\ specific_ticket_ids = <<>>
    /\ tickets_to_check = <<>>
    /\ tick = 0
    /\ last_status = None
    /\ result = NoResult
    /\ idx = 0
    /\ attempt = 1
    /\ available_tickets = <<>>
    /\ total_checked = 0
    /\ last_result = NoTicketResult
    /\ slept = 0
    /\ notifs = <<>>
    /\ check_log = <<>>
    /\ prev_available = {}
    /\ scan_status_prev = None
    /\ commits = 0
    /\ decided = FALSE
    /\ tick_429 = FALSE
    /\ resp_log = <<>>
    /\ waits = <<>>
    /\ page_text = NoPage
    /\ chan = 0
    /\ chat_i = 0
    /\ success_count = 0
    /\ failed_chats = <<>>
    /\ events = <<>>
    /\ attempted = <<>>
    /\ sends = <<>>
    /\ returned = None
    /\ field = <<>>
    /\ text = <<>>
    /\ char_i = 0
    /\ classified = <<>>

send_frame == <<cfg_vars, tick, last_status, result, tickets_to_check, idx, attempt,
                available_tickets, total_checked, last_result, slept, notifs, check_log,
                prev_available, scan_status_prev, commits, decided, tick_429, trace_vars,
                call, chat_ids, pure_vars>>

\* the gate of send_notifications (test_all_notifications passes its test
\* payload and its force argument on)
Gate ==
    /\ pc = "s_entry"
    /\ call.entry /= "test_telegram_notification"
    /\ IF ShouldSend(call.force, call.status, notify_all_statuses)
       THEN pc' = "s_channel" /\ chan' = 1 /\ returned' = returned
       ELSE /\ pc' = "s_done" /\ chan' = chan
            /\ returned' = IF call.entry = "test_all_notifications" THEN "True" ELSE None
    /\ UNCHANGED <<send_frame, chat_i, success_count, failed_chats, events, attempted, sends>>

\* test_telegram_notification up to its call of send_telegram_notification
TestTelegramEntry ==
    /\ pc = "s_entry"
    /\ call.entry = "test_telegram_notification"
    /\ IF "telegram" \notin config
       THEN /\ events' = Append(events, Event("error", "test_telegram_notification", <<>>))
            /\ returned' = "False"
            /\ pc' = "s_done" /\ chan' = chan
       ELSE /\ pc' = "s_channel" /\ chan' = 3
            /\ UNCHANGED <<events, returned>>
    /\ UNCHANGED <<send_frame, chat_i, success_count, failed_chats, attempted, sends>>

\* the channel function under way
Channel == ChannelOrder[chan]

\* position after the channel function under way has returned
AfterChannel ==
    IF call.entry = "test_telegram_notification" THEN Len(ChannelOrder) + 1 ELSE chan + 1

\* a channel function whose section is missing in the configuration returns at
\* once; the Telegram function logs a warning before it does
ChannelUnconfigured ==
    /\ pc = "s_channel" /\ chan <= Len(ChannelOrder)
    /\ Channel \notin config
    /\ events' = IF Channel = "telegram"
                 THEN Append(events, Event("warning", "telegram", <<>>)) ELSE events
    /\ chan' = AfterChannel
    /\ UNCHANGED <<send_frame, pc, chat_i, success_count, failed_chats, attempted, sends,
                   returned>>

\* a configured channel whose formatter subscripts a field the payload does
\* not have: KeyError, caught and logged by the channel function
ChannelFormatError ==
    /\ pc = "s_channel" /\ chan <= Len(ChannelOrder)
    /\ Channel \in config
    /\ ~(RequiredFields(Channel) \subseteq PayloadFields(call.kind))
    /\ attempted' = Append(attempted, Channel)
    /\ events' = Append(events, Event("error", Channel, <<>>))
    /\ chan' = AfterChannel
    /\ UNCHANGED <<send_frame, pc, chat_i, success_count, failed_chats, sends, returned>>

\* email, SMS and Pushover start their network send
ChannelSendStart ==
    /\ pc = "s_channel" /\ chan <= Len(ChannelOrder)
    /\ Channel \in config /\ Channel /= "telegram"
    /\ RequiredFields(Channel) \subseteq PayloadFields(call.kind)
    /\ attempted' = Append(attempted, Channel)
    /\ sends' = Append(sends, [channel |-> Channel, to |-> 0, outcome |-> "inflight"])
    /\ pc' = "s_inflight"
    /\ UNCHANGED <<send_frame, chan, chat_i, success_count, failed_chats, events, returned>>

\* send_telegram_notification up to its loop over the recipients
TelegramStart ==
    /\ pc = "s_channel" /\ chan <= Len(ChannelOrder)
    /\ Channel \in config /\ Channel = "telegram"
    /\ attempted' = Append(attempted, Channel)
    /\ IF ~Truthy(chat_ids)
       THEN /\ events' = Append(events, Event("error", "telegram", <<>>))
            /\ chan' = AfterChannel
            /\ UNCHANGED <<pc, chat_i, success_count, failed_chats>>
       ELSE /\ success_count' = 0
            /\ failed_chats' = <<>>
            /\ chat_i' = 0
            /\ pc' = "s_chats"
            /\ UNCHANGED <<events, chan>>
    /\ UNCHANGED <<send_frame, sends, returned>>

\* the loop ends at the first failed recipient
ChatLoopDone_StopOnFailure(done, n, failed) == done = n \/ failed /= <<>>

\* the for loop over chat_ids is exhausted
ChatLoopDone(done, n, failed) == done = n

\* the request to the next recipient is posted
TelegramChatStart ==
    /\ pc = "s_chats"
    /\ ~ChatLoopDone(chat_i, Len(chat_ids), failed_chats)
    /\ sends' = Append(sends, [channel |-> "telegram", to |-> chat_ids[chat_i + 1],
                               outcome |-> "inflight"])
    /\ pc' = "s_inflight"
    /\ UNCHANGED <<send_frame, chan, chat_i, success_count, failed_chats, events, attempted,
                   returned>>

\* outcomes of a network send: accepted, refused by the service, network error
SendOutcomes == {"ok", "refused", "failed"}

\* the send in flight ends: the channel logs a failure; the Telegram loop
\* counts the recipient and goes to the next one
SendComplete ==
    /\ pc = "s_inflight"
    /\ \E o \in SendOutcomes :
         LET n == Len(sends)
             s == sends[n]
         IN
         /\ sends' = [sends EXCEPT ![n].outcome = o]
         /\ IF s.channel = "telegram"
            THEN /\ pc' = "s_chats"
                 /\ chat_i' = chat_i + 1
                 /\ chan' = chan
                 /\ success_count' = IF o = "ok" THEN success_count + 1 ELSE success_count
                 /\ failed_chats' = IF o = "ok" THEN failed_chats
                                    ELSE Append(failed_chats, s.to)
                 /\ events' = IF o = "ok" THEN events
                              ELSE Append(events, Event("error", "telegram", <<s.to>>))
            ELSE /\ pc' = "s_channel"
                 /\ chan' = AfterChannel
                 /\ events' = IF o = "ok" THEN events
                              ELSE Append(events, Event("error", s.channel, <<>>))
                 /\ UNCHANGED <<chat_i, success_count, failed_chats>>
    /\ UNCHANGED <<send_frame, attempted, returned>>

\* the summary lines after the loop over the recipients
TelegramSummary ==
    /\ pc = "s_chats"
    /\ ChatLoopDone(chat_i, Len(chat_ids), failed_chats)
    /\ events' = (IF success_count > 0
                  THEN Append(events, Event("info", "telegram", <<>>)) ELSE events)
                 \o (IF Truthy(failed_chats)
                     THEN <<Event("warning", "telegram", failed_chats)>> ELSE <<>>)
    /\ chan' = AfterChannel
    /\ pc' = "s_channel"
    /\ UNCHANGED <<send_frame, chat_i, success_count, failed_chats, attempted, sends,
                   returned>>

\* the last channel function has returned and so does the entry point
SendReturn ==
    /\ pc = "s_channel" /\ chan > Len(ChannelOrder)
    /\ returned' = IF call.entry \in {"test_all_notifications", "test_telegram_notification"}
                   THEN "True" ELSE None
    /\ pc' = "s_done"
    /\ UNCHANGED <<send_frame, chan, chat_i, success_count, failed_chats, events, attempted,
                   sends>>

\* KeyboardInterrupt while a send is in flight: no except Exception clause of
\* the channel functions catches it, the request is abandoned and the
\* exception leaves send_notifications; in the monitoring loop the handler
\* logs "Monitoring stopped by user" and the loop is over
Interrupt ==
    /\ pc = "s_inflight"
    /\ sends' = [sends EXCEPT ![Len(sends)].outcome = "abandoned"]
    /\ pc' = "s_interrupted"
    /\ UNCHANGED <<send_frame, chan, chat_i, success_count, failed_chats, events, attempted,
                   returned>>

NextSend ==
    \/ Gate
    \/ TestTelegramEntry
    \/ ChannelUnconfigured
    \/ ChannelFormatError
    \/ ChannelSendStart
    \/ TelegramStart
    \/ TelegramChatStart
    \/ SendComplete
    \/ TelegramSummary
    \/ SendReturn
    \/ Interrupt

SpecSend == InitSend /\ [][NextSend]_vars

\* -------------------------------------------- one call of escape_markdown
\* characters of the texts that are escaped: a letter, the first, a middle and
\* the last entry of special_chars, and the backslash
Alphabet == {"a", "_", "-", "!", "\\"}
Texts == UNION {[1..n -> Alphabet] : n \in 0..MaxLen}

\* (the grave accent is written "grave")
special_chars == <<"_", "*", "[", "]", "(", ")", "~", "grave", ">", "#", "+", "-", "=", "|",
                   "{", "}", ".", "!">>

\* only the first occurrence is replaced
RECURSIVE ReplaceChar_FirstOnly(_, _)
ReplaceChar_FirstOnly(str, ch) ==
    IF str = <<>> THEN <<>>
    ELSE IF Head(str) = ch THEN <<"\\", ch>> \o Tail(str)
    ELSE <<Head(str)>> \o ReplaceChar_FirstOnly(Tail(str), ch)

\* text.replace(char, f"\\{char}")
RECURSIVE ReplaceChar(_, _)
ReplaceChar(str, ch) ==
    IF str = <<>> THEN <<>>
    ELSE (IF Head(str) = ch THEN <<"\\", ch>> ELSE <<Head(str)>>)
         \o ReplaceChar(Tail(str), ch)

InitEscape ==
    /\ notify_all_statuses = FALSE
    /\ ticket_id_range = <<>>
    /\ specific_ticket_ids = <<>>
    /\ config = {}
    /\ tickets_to_check = <<>>
    /\ pc = "e_loop"
    /\ tick = 0
    /\ last_status = None
    /\ result = NoResult
    /\ idx = 0
    /\ attempt = 1
    /\ available_tickets = <<>>
    /\ total_checked = 0
    /\ last_result = NoTicketResult
    /\ slept = 0
    /\ notifs = <<>>
    /\ check_log = <<>>
    /\ prev_available = {}
    /\ scan_status_prev = None
    /\ commits = 0
    /\ decided = FALSE
    /\ tick_429 = FALSE
    /\ resp_log = <<>>
    /\ waits = <<>>
    /\ page_text = NoPage
    /\ call = NoCall
    /\ chat_ids = <<>>
    /\ chan = 0
    /\ chat_i = 0
    /\ success_count = 0
    /\ failed_chats = <<>>
    /\ events = <<>>
    /\ attempted = <<>>
    /\ sends = <<>>
    /\ returned = None
    /\ field \in Texts
    /\ text = field
    /\ char_i = 0
    /\ classified = <<>>

escape_frame == <<cfg_vars, tick, last_status, result, tickets_to_check, idx, attempt,
                  available_tickets, total_checked, last_result, slept, notifs, check_log,
                  prev_available, scan_status_prev, commits, decided, tick_429, trace_vars,
                  send_vars, field, classified>>

\* one iteration of the loop over special_chars
EscapeStep ==
    /\ pc = "e_loop"
    /\ char_i < Len(special_chars)
    /\ text' = ReplaceChar(text, special_chars[char_i + 1])
    /\ char_i' = char_i + 1
    /\ UNCHANGED <<escape_frame, pc>>

\* return text
EscapeReturn ==
    /\ pc = "e_loop"
    /\ char_i = Len(special_chars)
    /\ pc' = "e_returned"
    /\ UNCHANGED <<escape_frame, text, char_i>>

NextEscape == EscapeStep \/ EscapeReturn

SpecEscape == InitEscape /\ [][NextEscape]_vars

\* ------------------------------------- classifications of one page content
\* the classification of a ticket page reads the monitor state: once a ticket
\* was seen available the result sticks
ClassifyCall_Sticky(p, ticket_id) ==
    IF last_result.status = AVAILABLE
    THEN [status |-> AVAILABLE, message |-> "available", ticket_id |-> ticket_id]
    ELSE [status |-> ClassifyTicketPage(p).status,
          message |-> ClassifyTicketPage(p).message, ticket_id |-> ticket_id]

\* status, message and ticket id of the result check_individual_ticket builds
\* from a fetched page
ClassifyCall(p, ticket_id) ==
    [status |-> ClassifyTicketPage(p).status,
     message |-> ClassifyTicketPage(p).message, ticket_id |-> ticket_id]

\* status, message and count of the result check_tickets_available builds
\* from a fetched page
ClassifyEventCall(p) ==
    [status |-> ClassifyEventPage(p).status,
     message |-> ClassifyEventPage(p).message, ticket_count |-> p.listings]

InitClassify ==
    /\ pc \in {"c_ticket", "c_event"}
    /\ notify_all_statuses = FALSE
    /\ ticket_id_range = <<>>
    /\ \E t \in TracedTickets : specific_ticket_ids = <<t>>
    /\ config = {}
    /\ tickets_to_check = <<>>
    /\ tick = 0
    /\ last_status \in {None, AVAILABLE, NO_TICKETS}
    /\ result = NoResult
    /\ idx = 0
    /\ attempt = 1
    /\ available_tickets = <<>>
    /\ total_checked = 0
    /\ last_result = NoTicketResult
    /\ slept = 0
    /\ notifs = <<>>
    /\ check_log = <<>>
    /\ prev_available = {}
    /\ scan_status_prev = None
    /\ commits = 0
    /\ decided = FALSE
    /\ tick_429 = FALSE
    /\ resp_log = <<>>
    /\ waits = <<>>
    /\ page_text \in (IF pc = "c_ticket" THEN Pages ELSE EventPages)
    /\ call = NoCall
    /\ chat_ids = <<>>
    /\ chan = 0
    /\ chat_i = 0
    /\ success_count = 0
    /\ failed_chats = <<>>
    /\ events = <<>>
    /\ attempted = <<>>
    /\ sends = <<>>
    /\ returned = None
    /\ field = <<>>
    /\ text = <<>>
    /\ char_i = 0
    /\ classified = <<>>

classify_frame == <<cfg_vars, tick, result, tickets_to_check, idx, attempt,
                    available_tickets, total_checked, slept, notifs, check_log,
                    prev_available, scan_status_prev, commits, decided, tick_429,
                    resp_log, waits, page_text, send_vars, field, text, char_i>>

\* the page content is classified (once more)
Classify ==
    /\ pc \in {"c_ticket", "c_event"}
    /\ Len(classified) < 2
    /\ LET r == IF pc = "c_ticket" THEN ClassifyCall(page_text, specific_ticket_ids[1])
                ELSE ClassifyEventCall(page_text)
       IN /\ classified' = Append(classified, r)
          /\ last_result' = r
    /\ UNCHANGED <<classify_frame, pc, last_status>>

\* a check of another page in between, and the monitor going on
OtherCheck ==
    /\ pc \in {"c_ticket", "c_event"}
    /\ \E p \in {q \in Pages : q.buy /\ ~q.price /\ ~q.expired} :
         \E t \in TracedTickets : last_result' = ClassifyCall(p, t)
    /\ last_status' = last_result'.status
    /\ UNCHANGED <<classify_frame, pc, classified>>

NextClassify == Classify \/ OtherCheck

SpecClassify == InitClassify /\ [][NextClassify]_vars

\* ------------------------------------------------------------- vocabulary
\* program positions at which result is the result of the current iteration
PostScan == {"log", "decide", "commit", "sleep", "crashed"}

\* a call of send_notifications passed the gate in this iteration
AnyDispatched == \E i \in 1..Len(notifs) : notifs[i].should_send

\* the summary (status change) notification passed the gate in this iteration
SummaryDispatched ==
    \E i \in 1..Len(notifs) : notifs[i].kind = "summary" /\ notifs[i].should_send

IsImmediate(n) == n.kind = "immediate" /\ n.should_send
IsAvailable(r) == r.status = AVAILABLE
TicketIds(s) == [i \in 1..Len(s) |-> s[i].ticket_id]

\* every request of the finished scan was answered 429
RateLimitedTick == tick_429 /\ total_checked > 0

\* ------------------------------------------------------------------ claims

\* C1 as stated: with notify_all_statuses false, a tick dispatches a
\* notification iff its status is AVAILABLE and the previous status is not.
C1_RisingEdgeOnly ==
    (pc = "commit" /\ ~notify_all_statuses)
        => (AnyDispatched <=> (result.status = AVAILABLE /\ last_status /= AVAILABLE))

\* C1 amended: with notify_all_statuses false, a tick dispatches a notification
\* iff its status is AVAILABLE, whatever the previous status was.
C1_LevelTriggered ==
    (pc \in {"commit", "sleep", "crashed"} /\ ~notify_all_statuses)
        => (AnyDispatched <=> result.status = AVAILABLE)

C1_Witness ==
    /\ pc = "commit" /\ ~notify_all_statuses
    /\ last_status = AVAILABLE /\ result.status = AVAILABLE
    /\ AnyDispatched

\* C2 as stated: an entity that was AVAILABLE in the previous tick is not
\* alerted again in this tick.
C2_OncePerTransition ==
    \A i \in 1..Len(notifs) :
        notifs[i].kind = "immediate" => notifs[i].ticket_id \notin prev_available

\* C2 amended: in every tick the immediate alerts are exactly the checks that
\* returned AVAILABLE, one alert per such check and in scan order, also for an
\* entity that was already AVAILABLE in the tick before.
C2_AlertPerAvailableCheck ==
    TicketIds(SelectSeq(notifs, IsImmediate)) = TicketIds(SelectSeq(check_log, IsAvailable))

C2_Witness ==
    \E i \in 1..Len(notifs) :
        /\ notifs[i].kind = "immediate" /\ notifs[i].should_send
        /\ notifs[i].ticket_id \in prev_available

\* C3: with notify_all_statuses true, the summary notification of a tick is
\* dispatched iff the status of the tick differs from the previous status.
C3_SummaryIffChanged ==
    (notify_all_statuses /\ pc \in {"commit", "crashed"})
        => (SummaryDispatched <=> result.status /= last_status)

\* C4: with notify_all_statuses false, a tick whose result is NO_TICKETS
\* invokes no notification channel (repeated NO_TICKETS and the falling edge
\* included).
C4_NoChannelOnUnavailable ==
    (~notify_all_statuses /\ pc \in PostScan /\ result.status = NO_TICKETS)
        => \A i \in 1..Len(notifs) : ~notifs[i].should_send /\ notifs[i].attempted = {}

C4_Witness ==
    /\ ~notify_all_statuses /\ pc = "sleep" /\ config /= {}
    /\ scan_status_prev = AVAILABLE /\ result.status = NO_TICKETS

\* C5 as stated: the first tick dispatches no status-change notification,
\* whatever the policy.
C5_FirstTickSilent == tick = 1 => ~SummaryDispatched

\* C5 amended: the first tick dispatches no status-change notification when
\* notify_all_statuses is false; when it is true the first tick that reaches
\* its decision always dispatches one (no previous status differs from every
\* status).
C5_FirstTickByPolicy ==
    tick = 1 =>
        /\ SummaryDispatched => notify_all_statuses
        /\ (notify_all_statuses /\ pc \in {"commit", "sleep"}) => SummaryDispatched

C5_Witness ==
    tick = 1 /\ pc = "commit" /\ notify_all_statuses /\ SummaryDispatched

C7_No403Retry ==
    \A i \in 1..Len(resp_log) :
        resp_log[i] = "403"
            => (i = Len(resp_log) /\ pc = "f_returned" /\ last_result.status = "AUTH_REQUIRED")

\* C7 amended: a 403 on attempt 1 or 2 is retried with the next strategy; a
\* 403 on the third attempt returns NO_TICKETS; AUTH_REQUIRED is never
\* returned.
C7_403RetriedThenUnavailable ==
    /\ last_result.status /= "AUTH_REQUIRED"
    /\ \A i \in 1..Len(resp_log) :
          resp_log[i] = "403" =>
              IF i < NumStrategies
              THEN Len(resp_log) > i \/ (pc = "f_call" /\ attempt = i + 1)
              ELSE pc = "f_returned" /\ last_result.status = NO_TICKETS

C7_Witness ==
    resp_log = <<"403", "403", "403">> /\ pc = "f_returned" /\ last_result.status = NO_TICKETS

All429 == resp_log /= <<>> /\ \A i \in 1..Len(resp_log) : resp_log[i] = "429"

\* C8 as stated: when every attempt gets 429 the fetch makes 4 attempts,
\* waits 30, 60 and 120 s before attempts 2, 3 and 4 and returns RATE_LIMITED.
C8_FourAttemptsBackoff ==
    (pc = "f_returned" /\ All429)
        => /\ Len(resp_log) = 4
           /\ waits = <<0, 30, 60, 120>>
           /\ last_result.status = "RATE_LIMITED"

\* C8 amended: when every attempt gets 429 the fetch makes exactly 3 attempts,
\* waits 2 and 5 s before attempts 2 and 3 and returns ERROR; no fetch makes
\* more than 3 attempts.
C8_ThreeAttemptsError ==
    /\ Len(resp_log) <= NumStrategies
    /\ All429 =>
          /\ waits = SubSeq(<<0, 2, 5>>, 1, Len(resp_log))
          /\ pc = "f_returned" <=> Len(resp_log) = 3
          /\ pc = "f_returned" => last_result.status = ERROR

C8_Witness ==
    /\ pc = "f_returned" /\ resp_log = <<"429", "429", "429">>
    /\ waits = <<0, 2, 5>> /\ last_result.status = ERROR

\* C9 as stated: a rate-limited tick causes no notification and is followed
\* by a wait longer than the normal interval.
C9_RateLimitedBackoff ==
    (pc = "tick_start" /\ tick >= 1 /\ RateLimitedTick)
        => (~AnyDispatched /\ slept > check_interval)

\* C9 amended: no tick has status RATE_LIMITED; a tick whose every request was
\* answered 429 has every entity ERROR and result NO_TICKETS, is notified like
\* any other NO_TICKETS tick, and the wait after a tick is always exactly
\* check_interval.
C9_NoRateLimitHandling ==
    /\ result.status \in {None, AVAILABLE, NO_TICKETS}
    /\ (pc \in PostScan /\ RateLimitedTick)
          => /\ result.status = NO_TICKETS
             /\ \A i \in 1..Len(check_log) : check_log[i].status = ERROR
    /\ (pc = "tick_start" /\ tick >= 1) => slept = check_interval

C9_Witness ==
    /\ pc = "tick_start" /\ tick >= 1 /\ RateLimitedTick
    /\ SummaryDispatched /\ slept = check_interval

\* C10: a 404 is never retried: the attempt that receives it is the last
\* request of the fetch, which returns NO_TICKETS.
C10_No404Retry ==
    \A i \in 1..Len(resp_log) :
        resp_log[i] = "404"
            => (i = Len(resp_log) /\ pc = "f_returned" /\ last_result.status = NO_TICKETS)

C10_Witness ==
    resp_log = <<"403", "404">> /\ pc = "f_returned" /\ last_result.status = NO_TICKETS

AllTransient ==
    resp_log /= <<>> /\ \A i \in 1..Len(resp_log) : resp_log[i] \in {"timeout", "connerr"}

\* C11 as stated: when every attempt times out or fails in the network the
\* fetch makes 4 attempts, waits 10 s times the attempt number before each
\* retry and returns ERROR.
C11_FourAttemptsLinear ==
    (pc = "f_returned" /\ AllTransient)
        => /\ Len(resp_log) = 4
           /\ waits = <<0, 10, 20, 30>>
           /\ last_result.status = ERROR

\* C11 amended: when every attempt times out or fails in the network the
\* fetch makes 2 additional attempts (3 in total), waits 2 s and 5 s before
\* attempts 2 and 3 and returns ERROR after the third.
C11_ThreeAttemptsFixedDelays ==
    AllTransient =>
        /\ waits = SubSeq(<<0, 2, 5>>, 1, Len(resp_log))
        /\ pc = "f_returned" <=> Len(resp_log) = 3
        /\ pc = "f_returned" => last_result.status = ERROR

C11_Witness ==
    /\ pc = "f_returned" /\ resp_log = <<"timeout", "connerr", "timeout">>
    /\ waits = <<0, 2, 5>> /\ last_result.status = ERROR

\* C12: whatever the attempts answer, check_individual_ticket returns a result
\* record with one of the enumerated statuses for the ticket it was asked
\* about; the strategy loop never runs out without a return.
C12_AlwaysResultRecord ==
    /\ pc = "f_call" => (attempt <= NumStrategies /\ Len(resp_log) = attempt - 1)
    /\ pc = "f_returned" =>
          /\ last_result.status \in {AVAILABLE, NO_TICKETS, ERROR}
          /\ last_result.ticket_id = tickets_to_check[1]
          /\ Len(resp_log) \in 1..NumStrategies

C12_Witness ==
    /\ pc = "f_returned" /\ resp_log = <<"500", "403", "403">>
    /\ last_result.status = NO_TICKETS

\* number of entities the configuration asks the scan to check
ConfiguredCount ==
    IF Truthy(specific_ticket_ids) THEN Len(specific_ticket_ids)
    ELSE ticket_id_range[2] - ticket_id_range[1] + 1

Ascending(ids, start_id) == \A i \in 1..Len(ids) : ids[i] = start_id + i - 1

\* C13: a scan over a range checks the ids start..end, each once and in
\* ascending order; a scan over an explicit list checks the ids of the list in
\* the given order.
C13_ScanOrder ==
    (tick >= 1 /\ pc \in {"fetch"} \cup PostScan) =>
        LET ids == TicketIds(check_log) IN
        /\ ~Truthy(specific_ticket_ids) =>
              /\ Ascending(ids, ticket_id_range[1])
              /\ Len(ids) <= ticket_id_range[2] - ticket_id_range[1] + 1
              /\ pc \in PostScan => Len(ids) = ticket_id_range[2] - ticket_id_range[1] + 1
        /\ (Truthy(specific_ticket_ids) /\ ~Truthy(ticket_id_range)) =>
              /\ Len(ids) <= Len(specific_ticket_ids)
              /\ ids = SubSeq(specific_ticket_ids, 1, Len(ids))
              /\ pc \in PostScan => ids = specific_ticket_ids

C13_Witness ==
    /\ pc = "log" /\ ticket_id_range = <<1, 2>> /\ specific_ticket_ids = <<>>
    /\ TicketIds(check_log) = <<1, 2>>

\* C14: when a range and an explicit list are both configured the scan
\* iterates the range and ignores the list.
C14_RangePrecedence ==
    (Truthy(ticket_id_range) /\ Truthy(specific_ticket_ids) /\ pc \in PostScan) =>
        /\ Ascending(TicketIds(check_log), ticket_id_range[1])
        /\ Len(check_log) = ticket_id_range[2] - ticket_id_range[1] + 1

\* C15: when neither a range nor a list is configured every scan checks
\* exactly the tickets 54310..54360.
C15_DefaultRange ==
    (tick >= 1 /\ ~Truthy(specific_ticket_ids) /\ ticket_id_range \notin RangeChoices) =>
        /\ ticket_id_range = <<54310, 54360>>
        /\ Len(tickets_to_check) = 51
        /\ Ascending(tickets_to_check, 54310)
        /\ pc \in PostScan =>
              /\ TicketIds(check_log) = tickets_to_check
              /\ result.checked_count = 51

C15_Witness ==
    /\ tick = 2 /\ pc = "sleep" /\ Len(check_log) = 51
    /\ check_log[1].ticket_id = 54310 /\ check_log[51].ticket_id = 54360

\* C16: before the first request of every entity but the first the scan has
\* slept a non-zero delay, whatever the result of the entity before it was.
C16_DelayBetweenEntities ==
    (pc = "fetch" /\ idx >= 1 /\ attempt = 1) =>
        /\ slept > 0
        /\ last_result.ticket_id = tickets_to_check[idx]

C16_Witness ==
    /\ pc = "fetch" /\ idx = 1 /\ attempt = 1
    /\ last_result.status = ERROR /\ slept >= 2

\* C17: while the scan goes on, every check that returned AVAILABLE already
\* has its forced notification for that ticket, passed through the gate and
\* handed to every configured channel, whatever notify_all_statuses and
\* last_status are.
C17_ImmediateForcedAlert ==
    \A i \in 1..Len(check_log) :
        check_log[i].status = AVAILABLE =>
            \E j \in 1..Len(notifs) :
                /\ notifs[j].kind = "immediate"
                /\ notifs[j].ticket_id = check_log[i].ticket_id
                /\ notifs[j].force /\ notifs[j].should_send
                /\ notifs[j].attempted = config

C17_Witness ==
    /\ pc = "fetch" /\ idx = 1 /\ attempt = 1
    /\ ~notify_all_statuses /\ last_status = AVAILABLE /\ config /= {}
    /\ check_log[1].status = AVAILABLE
    /\ notifs[1].kind = "immediate" /\ notifs[1].attempted = config

\* C18: whatever the entities return, the scan checks every configured entity
\* and the checked count of the summary is the number of configured entities.
C18_ErrorDoesNotAbortScan ==
    pc \in PostScan =>
        /\ Len(check_log) = ConfiguredCount
        /\ result.checked_count = ConfiguredCount

C18_Witness ==
    /\ pc = "log" /\ Len(check_log) = 2 /\ check_log[1].status = ERROR
    /\ result.checked_count = 2

\* C19: the available list of the summary is the list of the checks that
\* returned AVAILABLE, in scan order, and the status of the summary is
\* AVAILABLE iff that list is not empty, NO_TICKETS otherwise.
C19_SummaryConsistent ==
    pc \in PostScan =>
        /\ result.available_tickets = TicketIds(SelectSeq(check_log, IsAvailable))
        /\ result.status = AVAILABLE <=> result.available_tickets /= <<>>
        /\ result.status = NO_TICKETS <=> result.available_tickets = <<>>

C19_Witness ==
    /\ pc = "log" /\ result.status = AVAILABLE
    /\ result.available_tickets = <<2, 1>>

\* C20: every call of send_notifications that passes the gate calls each
\* configured channel exactly once, in the order of the calls, also after a
\* channel before it has failed.
C20_EveryChannelAttemptedOnce ==
    \A i \in 1..Len(notifs) :
        notifs[i].should_send =>
            LET a == notifs[i].attempts IN
            /\ Len(a) = Cardinality(config)
            /\ {a[j].channel : j \in 1..Len(a)} = config
            /\ \A j, k \in 1..Len(a) : j < k =>
                  \E m, n \in 1..Len(ChannelOrder) :
                      m < n /\ ChannelOrder[m] = a[j].channel /\ ChannelOrder[n] = a[k].channel

C20_Witness ==
    \E i \in 1..Len(notifs) :
        /\ Len(notifs[i].attempts) = 4
        /\ notifs[i].attempts[1].outcome = "keyerror"
        /\ notifs[i].attempts[2].outcome = "failed"
        /\ notifs[i].attempts[3].outcome = "ok"

\* the traced fetch returned the classification of a fetched page
FetchedPage == pc = "f_returned" /\ resp_log /= <<>> /\ resp_log[Len(resp_log)] = "200"

\* C28 as stated: every AVAILABLE result was produced from a page in which a
\* buy label or a price token was found.
C28_AvailableNeedsSignal ==
    (pc = "f_returned" /\ last_result.status = AVAILABLE)
        => (page_text.buy \/ page_text.price)

\* C28 amended: every AVAILABLE result of a ticket check comes from a fetched
\* page without sold/reserved phrase, without expired/cancelled phrase and of
\* at least 2000 characters; a buy label or price token is not required: with
\* one the message is "available", without one the result is still AVAILABLE
\* with the message "may be available".
C28_AvailableWithoutSignal ==
    /\ (pc = "f_returned" /\ last_result.status = AVAILABLE) =>
          /\ FetchedPage
          /\ ~page_text.sold /\ ~page_text.expired /\ page_text.len >= 2000
          /\ last_result.message =
                IF page_text.buy \/ page_text.price THEN "available" ELSE "may_be_available"
    /\ (FetchedPage /\ ~page_text.sold /\ ~page_text.expired /\ page_text.len >= 2000
          /\ ~page_text.buy /\ ~page_text.price)
          => (last_result.status = AVAILABLE /\ last_result.message = "may_be_available")

C28_Witness ==
    /\ FetchedPage /\ last_result.status = AVAILABLE
    /\ ~page_text.buy /\ ~page_text.price
    /\ last_result.message = "may_be_available"

\* C29: a fetched ticket page is classified AVAILABLE iff it has no
\* sold/reserved phrase, no expired/cancelled phrase and at least 2000
\* characters of text, NO_TICKETS otherwise; a buy label or price token does
\* not change the status.
C29_ClassificationByPhrases ==
    FetchedPage =>
        /\ last_result.status \in {AVAILABLE, NO_TICKETS}
        /\ last_result.status = AVAILABLE
              <=> (~page_text.sold /\ ~page_text.expired /\ page_text.len >= 2000)

C29_Witness ==
    /\ FetchedPage /\ last_result.status = NO_TICKETS
    /\ ~page_text.sold /\ ~page_text.expired /\ page_text.len = 1999
    /\ page_text.buy /\ page_text.price

\* the aggregate check returned the classification of a fetched event page
FetchedEventPage == pc = "a_returned" /\ resp_log = <<"200">>

\* a known "no items for sale" or sold-out phrase is in the event page
HasNoTicketsPhrase == page_text.sold_out \/ page_text.no_tickets \/ page_text.no_tickets_en

\* C30: a fetched event page with none of the "no items for sale" / sold-out
\* phrases is classified AVAILABLE, one with such a phrase NO_TICKETS.
C30_AggregateByPhrases ==
    FetchedEventPage =>
        /\ HasNoTicketsPhrase => last_result.status = NO_TICKETS
        /\ ~HasNoTicketsPhrase => last_result.status = AVAILABLE

\* sends and log records of one channel
SendsOf(c) == {i \in 1..Len(sends) : sends[i].channel = c}
EventsOf(c) == {i \in 1..Len(events) : events[i].source = c}

\* C21: a channel without configuration is a silent no-op of the dispatch: it
\* starts no send and logs no warning or error.
C21_UnconfiguredSilent ==
    \A c \in Channels \ config :
        /\ SendsOf(c) = {}
        /\ \A i \in EventsOf(c) : events[i].level \notin {"warning", "error"}

IsTelegramSend(s) == s.channel = "telegram"
IsFailedSend(s) == s.channel = "telegram" /\ s.outcome \in {"refused", "failed"}
Recipients(ss) == [i \in 1..Len(ss) |-> ss[i].to]

\* send_telegram_notification has left its loop over the recipients
TelegramFinished ==
    /\ "telegram" \in SeqToSet(attempted) /\ Truthy(chat_ids)
    /\ chan > 3

\* C22: a Telegram dispatch posts to every recipient of the list exactly once
\* and in order, also after a recipient has failed; when it is complete the
\* success count plus the number of failed recipients is the number of
\* recipients, and the failed recipients are listed in a warning.
C22_EveryRecipientTallied ==
    LET tg == SelectSeq(sends, IsTelegramSend) IN
    /\ Recipients(tg) = SubSeq(chat_ids, 1, Len(tg))
    /\ pc = "s_chats" => success_count + Len(failed_chats) = Len(tg)
    /\ TelegramFinished =>
          /\ Recipients(tg) = chat_ids
          /\ success_count + Len(failed_chats) = Len(chat_ids)
          /\ failed_chats = Recipients(SelectSeq(sends, IsFailedSend))
          /\ Truthy(failed_chats) =>
                \E i \in EventsOf("telegram") :
                    events[i].level = "warning" /\ events[i].chats = failed_chats

C22_Witness ==
    /\ TelegramFinished /\ chat_ids = <<1, 2>>
    /\ \E i, j \in SendsOf("telegram") :
          /\ i < j /\ sends[i].to = 1 /\ sends[i].outcome = "failed"
          /\ sends[j].to = 2 /\ sends[j].outcome = "ok"
    /\ success_count = 1 /\ failed_chats = <<1>>

\* C23: the Telegram channel reports overall success iff the send to at least
\* one recipient succeeded, and test_telegram_notification (whose value
\* troubleshoot_telegram reports) returns success only in that case.
C23_TelegramSuccessIffDelivered ==
    /\ TelegramFinished =>
          ((\E i \in EventsOf("telegram") : events[i].level = "info") <=> success_count > 0)
    /\ (pc = "s_done" /\ call.entry = "test_telegram_notification")
          => (returned = "True" <=> success_count > 0)

\* C24: send_notifications called with force calls every configured channel,
\* each once, for every status and both values of notify_all_statuses.
C24_ForceBypassesGate ==
    (call.force /\ pc \in {"s_done", "s_channel", "s_chats", "s_inflight"}) =>
        /\ chan >= 1
        /\ pc = "s_done" =>
              /\ SeqToSet(attempted) = config
              /\ Len(attempted) = Cardinality(config)

C24_Witness ==
    /\ pc = "s_done" /\ call.force /\ call.status = ERROR /\ ~notify_all_statuses
    /\ config = Channels /\ Len(attempted) = 4

\* C25: the test send of all notifications, as --test-notifications calls it,
\* calls every configured channel whether notify_all_statuses is set or not.
C25_TestSendBypassesPolicy ==
    (call.entry = "test_all_notifications" /\ pc = "s_done")
        => SeqToSet(attempted) = config

\* C26: an exception raised inside a tick does not end the monitor: the loop
\* goes on to its wait of the normal interval and then to the next tick.
C26_LoopSurvivesException == [][pc = "crashed" => pc' = "sleep"]_vars

\* C27: when an interrupt stops the monitoring loop while a send is in
\* flight, that send has completed (accepted, refused or failed), it is not
\* abandoned.
C27_SendCompletesBeforeExit ==
    (pc = "s_interrupted" /\ call.entry = "monitoring")
        => \A i \in 1..Len(sends) : sends[i].outcome \in SendOutcomes

\* C31 as stated: a tick whose scan finds an available entity sends both the
\* immediate alert and an end-of-scan notification.
C31_BothNotifications ==
    (pc \in {"commit", "sleep"} /\ result.status = AVAILABLE)
        => /\ \E i \in 1..Len(notifs) : IsImmediate(notifs[i])
           /\ SummaryDispatched

\* C31 amended: a tick whose scan finds an available entity sends the
\* immediate alert of every available entity during the scan; the end-of-scan
\* summary notification is sent as well iff notify_all_statuses is set and the
\* scan of the tick before did not return AVAILABLE.
C31_SummaryOnlyOnChange ==
    (pc \in {"commit", "sleep"} /\ result.status = AVAILABLE)
        => /\ \A t \in SeqToSet(result.available_tickets) :
                 \E i \in 1..Len(notifs) : IsImmediate(notifs[i]) /\ notifs[i].ticket_id = t
           /\ SummaryDispatched <=> (notify_all_statuses /\ scan_status_prev /= AVAILABLE)

C31_Witness ==
    /\ pc = "sleep" /\ result.status = AVAILABLE /\ notify_all_statuses
    /\ scan_status_prev = AVAILABLE
    /\ Len(notifs) = 1 /\ IsImmediate(notifs[1])

\* C34: a tick in which no entity is available completes normally, whatever
\* the entity configuration: it goes on to its sleep, it does not end the
\* monitoring loop.
C34_QuietTickCompletes ==
    (pc \in PostScan \cup {"stopped"} /\ result.available_tickets = <<>>)
        => pc \in {"log", "decide", "commit", "sleep"}

\* C35: every payload the program builds has every field the formatters of
\* the channels read: when the dispatch is over, every configured channel that
\* was called has started its send.
C35_PayloadsComplete ==
    (pc = "s_done" /\ call.entry /= "send_notifications")
        => \A c \in SeqToSet(attempted) :
              SendsOf(c) /= {} \/ (c = "telegram" /\ ~Truthy(chat_ids))

Last(s) == s[Len(s)]

\* C36: when the strategies are exhausted the returned status follows the
\* last attempt alone: NO_TICKETS after a 403, ERROR after a timeout or
\* another request failure, whatever the earlier attempts answered.
C36_StatusByLastAttempt ==
    (pc = "f_returned" /\ Len(resp_log) = NumStrategies) =>
        /\ Last(resp_log) = "403" => last_result.status = NO_TICKETS
        /\ Last(resp_log) \in {"timeout", "connerr", "429", "500"}
              => last_result.status = ERROR

C36_Witness ==
    /\ pc = "f_returned" /\ resp_log = <<"timeout", "timeout", "403">>
    /\ last_result.status = NO_TICKETS

\* C37: the status of the scan summary is never ERROR; a scan whose every
\* check returned ERROR has the status NO_TICKETS and an empty available
\* list, like a scan whose every entity is unavailable.
C37_SummaryNeverError ==
    /\ result.status /= ERROR
    /\ (pc \in PostScan /\ \A i \in 1..Len(check_log) : check_log[i].status = ERROR)
          => (result.status = NO_TICKETS /\ result.available_tickets = <<>>)

C37_Witness ==
    /\ pc = "decide" /\ Len(check_log) = 2
    /\ check_log[1].status = ERROR /\ check_log[2].status = ERROR
    /\ result.status = NO_TICKETS

\* C38: every scan terminates: no entity gets more than 3 fetch attempts, and
\* a scan under way returns its summary.
C38_ScanTerminates ==
    /\ [](pc = "fetch" => (attempt \in 1..3 /\ idx < Len(tickets_to_check)))
    /\ (pc = "fetch") ~> (pc = "log")

C38_Witness ==
    /\ pc = "log" /\ total_checked = 2 /\ result.checked_count = 2
    /\ last_result.status = ERROR /\ last_result.message = "timeout"

\* C39: run_single_check always takes the scan branch: after its defaulting
\* step a range or a list is set, the aggregate page check is not called and
\* no notification is sent without force.
C39_AlwaysScans ==
    /\ pc /= "aggregate"
    /\ tick >= 1 => UsesScan(ticket_id_range, specific_ticket_ids)
    /\ \A i \in 1..Len(notifs) : notifs[i].force

C39_Witness ==
    /\ pc = "log" /\ specific_ticket_ids = <<>>
    /\ ticket_id_range = <<54310, 54360>> /\ result.checked_count = 51

IsSpecial(ch) == \E i \in 1..Len(special_chars) : special_chars[i] = ch

\* every markup character preceded by one backslash, every other character
\* as it is
RECURSIVE EscapedOnce(_)
EscapedOnce(str) ==
    IF str = <<>> THEN <<>>
    ELSE (IF IsSpecial(Head(str)) THEN <<"\\", Head(str)>> ELSE <<Head(str)>>)
         \o EscapedOnce(Tail(str))

\* the backslash in front of a markup character is taken out
RECURSIVE Unescaped(_)
Unescaped(str) ==
    IF str = <<>> THEN <<>>
    ELSE IF Len(str) >= 2 /\ Head(str) = "\\" /\ IsSpecial(str[2])
    THEN <<str[2]>> \o Unescaped(Tail(Tail(str)))
    ELSE <<Head(str)>> \o Unescaped(Tail(str))

\* C32: in the text escape_markdown returns, every markup character of the
\* field is preceded by exactly one inserted backslash, no other character is
\* changed, and taking the inserted backslashes out gives the field back.
C32_EveryMarkupCharEscapedOnce ==
    pc = "e_returned" =>
        /\ text = EscapedOnce(field)
        /\ Unescaped(text) = field

C32_Witness ==
    /\ pc = "e_returned" /\ field = <<"\\", "_", "!">>
    /\ text = <<"\\", "\\", "_", "\\", "!">>

====
